---------------------------- MODULE Spec2Model ----------------------------
(***************************************************************************)
(* Model of the promptomatik authentication code:                          *)
(*   - the client session of src/auth/AuthContext.js (AuthProvider):       *)
(*     session restore, login, register, logout, refreshToken;             *)
(*   - ApiService.getToken of src/unnamed/part_000;                        *)
(*   - the registration handler onRequestPost of src/unnamed/part_001.     *)
(* The client runs on one event loop: an async function runs without       *)
(* interruption up to its next await of a network call, so every action    *)
(* below is the code between two such awaits.  `await response.json()`     *)
(* reads no session state, so it is folded into the step that follows it.  *)
(***************************************************************************)
EXTENDS Integers, Sequences, FiniteSets, TLC

(***************************************************************************)
(* Bounds                                                                  *)
(***************************************************************************)
MaxCalls == 2      \* client operations in flight at once
MaxTokId == 2      \* distinct tokens the server hands out
NumUsers == 2      \* distinct user profiles the server answers with
MaxExp == 2        \* largest exp (epoch seconds) of a token payload
NumRequests == 2   \* register requests the server handles concurrently
MaxEmailLen == 5   \* longest email text of a request body
MaxMigrations == 2 \* runMigration calls in flight at once
MaxListeners == 3  \* progress listeners the migration service can hold
MaxMigrated == 1   \* largest `migrated` of a migration result
MaxFailed == 1     \* largest `failed` of a migration result

MsPerSec == 1000

VARIABLES
  storage,          \* localStorage value under AUTH_KEY
  token,            \* useState token
  user,             \* useState user
  isLoading,        \* useState isLoading
  isAuthenticated,  \* useState isAuthenticated
  calls,            \* the async client operations in flight
  ret,              \* the operation that completed in the last step
  env,              \* the server's bindings: is JWT_SECRET set, is DB bound
  table,            \* the rows of the users table
  reqs,             \* the register requests the server is handling
  simple,           \* the request the debugging endpoint is handling
  migrationStatus,  \* useState migrationStatus
  renderedRunning,  \* migrationStatus.isRunning as the last render saw it
  listeners,        \* the progress listeners the migration service holds
  migs,             \* the runMigration calls in flight
  mret              \* the migration operation completed in the last step

cvars == <<storage, token, user, isLoading, isAuthenticated, calls, ret>>

svars == <<env, table, reqs>>

dvars == <<simple>>

mvars == <<migrationStatus, renderedRunning, listeners, migs, mret>>

vars == <<storage, token, user, isLoading, isAuthenticated, calls, ret,
          env, table, reqs, simple,
          migrationStatus, renderedRunning, listeners, migs, mret>>

(***************************************************************************)
(* JavaScript values                                                       *)
(***************************************************************************)
Null == [k |-> "null"]
Undefined == [k |-> "undefined"]
Absent == [k |-> "absent"]          \* localStorage.getItem returns null

\* A string value; its text is a sequence of characters.
Str(s) == [k |-> "str", s |-> s]

\* !v is false: v is not undefined, null or the empty string.
Truthy(v) == ~(v.k \in {"null", "undefined"} \/ (v.k = "str" /\ v.s = <<>>))

Users == {[k |-> "user", id |-> i] : i \in 1..NumUsers}

\* What atob + JSON.parse make of the second segment of a token.
Payloads ==
  {[k |-> x, exp |-> 0] : x \in {"badb64", "notjson", "jsonnull", "noexp"}}
    \cup {[k |-> "exp", exp |-> e] : e \in 0..MaxExp}

\* Token strings: dot-joined segments; id tells tokens of equal payload apart.
TokenStr(i, n, p) == [k |-> "tok", id |-> i, segs |-> n, pl |-> p]

\* A truthy token value that is not a string.
NumberToken == [k |-> "num"]

StoredTokens ==
  {TokenStr(0, n, p) : n \in 2..3, p \in Payloads}
    \cup {TokenStr(0, 1, [k |-> "badb64", exp |-> 0])}
    \cup {NumberToken, Undefined, Null}

\* Tokens of server responses: three segments, a payload with exp.
RespTokens == {TokenStr(i, 3, [k |-> "exp", exp |-> MaxExp]) : i \in 1..MaxTokId}

\* Texts localStorage can hold that are not a serialized object.
Texts == {"", "undefined", "null", "garbage", "0", "5", "[]"}

Text(s) == [k |-> "text", s |-> s]

\* JSON.stringify of an object with the keys token and user; a key whose
\* value is undefined is left out of the text.
Stringify(t, u) == [k |-> "obj", token |-> t, user |-> u]

PersistedValues ==
  {Absent} \cup {Text(s) : s \in Texts}
    \cup {Stringify(t, u) : t \in StoredTokens, u \in Users \cup {Undefined}}

\* Date.now() values around the exp values, in milliseconds.
Nows ==
  {n \in {e * MsPerSec + d : e \in 0..MaxExp, d \in {-1000, -1, 0, 1, 1000}} : n >= 0}


(***************************************************************************)
(* Texts, JSON and base64 (btoa, atob)                                     *)
(***************************************************************************)
\* Characters of request texts: a letter, the at sign, the dot, a blank.
Alphabet == {"a", "@", ".", " "}

\* A character outside Latin-1, which btoa refuses.
NonLatin1 == "U+0141"

\* A Latin-1 letter above ASCII (u with diaeresis).
Latin1Letter == "U+00FC"

\* The code unit of a character.
CodeOf(ch) ==
  CASE ch = "a" -> 97
    [] ch = "@" -> 64
    [] ch = "." -> 46
    [] ch = " " -> 32
    [] ch = Latin1Letter -> 252
    [] ch = NonLatin1 -> 321

CharOf(code) ==
  CHOOSE ch \in Alphabet \cup {Latin1Letter, NonLatin1} : CodeOf(ch) = code

Codes(s) == [x \in 1..Len(s) |-> CodeOf(s[x])]

Chars(t) == [x \in 1..Len(t) |-> CharOf(t[x])]

RECURSIVE Digits(_)
\* The decimal digits of a number, as code units.
Digits(n) == IF n < 10 THEN <<48 + n>> ELSE Append(Digits(n \div 10), 48 + (n % 10))

RECURSIVE ParseInt(_)
ParseInt(t) ==
  IF Len(t) = 1 THEN t[1] - 48
  ELSE 10 * ParseInt(SubSeq(t, 1, Len(t) - 1)) + (t[Len(t)] - 48)

IsDigits(t) == Len(t) > 0 /\ \A x \in 1..Len(t) : t[x] \in 48..57

\* The pieces of JSON.stringify(tokenPayload) around the values:
\* {"userId":"  ","email":"  ","firstName":"  ","iat":  ,"exp":  }
KeyUserId == <<123, 34, 117, 115, 101, 114, 73, 100, 34, 58, 34>>
KeyEmail == <<34, 44, 34, 101, 109, 97, 105, 108, 34, 58, 34>>
KeyFirstName == <<34, 44, 34, 102, 105, 114, 115, 116, 78, 97, 109, 101, 34, 58, 34>>
KeyIat == <<34, 44, 34, 105, 97, 116, 34, 58>>
KeyExp == <<44, 34, 101, 120, 112, 34, 58>>
CloseBrace == <<125>>

\* The text of a version-4 id: 00000000-0000-4000-8000-00000000000n.
UuidHead ==
  <<48, 48, 48, 48, 48, 48, 48, 48, 45, 48, 48, 48, 48, 45, 52, 48, 48, 48,
    45, 56, 48, 48, 48, 45, 48, 48, 48, 48, 48, 48, 48, 48, 48, 48, 48>>

UuidText(id) == Append(UuidHead, 48 + id)

\* JSON.stringify of a token payload.
JsonText(p) ==
  KeyUserId \o UuidText(p.userId) \o KeyEmail \o Codes(p.email.s)
    \o KeyFirstName \o Codes(p.firstName.s) \o KeyIat \o Digits(p.iat)
    \o KeyExp \o Digits(p.exp) \o CloseBrace

Has(t, pos, key) ==
  /\ pos >= 1
  /\ pos + Len(key) - 1 <= Len(t)
  /\ \A x \in 1..Len(key) : t[pos + x - 1] = key[x]

Slice(t, a, b) == [x \in 1..(b - a + 1) |-> t[a + x - 1]]

\* The first position from `from` on that holds c, or 0.
Find(t, from, c) ==
  LET S == {x \in from..Len(t) : t[x] = c} IN
  IF S = {} THEN 0 ELSE CHOOSE x \in S : \A y \in S : x <= y

Failure == [k |-> "throw"]

\* JSON.parse of the text of a token payload: the object with exp, iat and
\* the identity fields, or a SyntaxError.
JsonParsePayload(t) ==
  IF ~Has(t, 1, KeyUserId) THEN Failure
  ELSE LET q1 == Find(t, Len(KeyUserId) + 1, 34) IN
  IF q1 = 0 \/ ~Has(t, q1, KeyEmail) THEN Failure
  ELSE LET e1 == q1 + Len(KeyEmail)
           q2 == Find(t, e1, 34) IN
  IF q2 = 0 \/ ~Has(t, q2, KeyFirstName) THEN Failure
  ELSE LET f1 == q2 + Len(KeyFirstName)
           q3 == Find(t, f1, 34) IN
  IF q3 = 0 \/ ~Has(t, q3, KeyIat) THEN Failure
  ELSE LET i1 == q3 + Len(KeyIat)
           q4 == Find(t, i1, 44) IN
  IF q4 = 0 \/ ~Has(t, q4, KeyExp) \/ t[Len(t)] # 125 THEN Failure
  ELSE LET x1 == q4 + Len(KeyExp)
           uid == Slice(t, Len(KeyUserId) + 1, q1 - 1)
           iat == Slice(t, i1, q4 - 1)
           exp == Slice(t, x1, Len(t) - 1) IN
  IF ~IsDigits(iat) \/ ~IsDigits(exp) \/ ~Has(uid, 1, UuidHead)
       \/ Len(uid) # Len(UuidHead) + 1
  THEN Failure
  ELSE [k |-> "exp", exp |-> ParseInt(exp), iat |-> ParseInt(iat),
        userId |-> uid[Len(uid)] - 48,
        email |-> Str(Chars(Slice(t, e1, q2 - 1))),
        firstName |-> Str(Chars(Slice(t, f1, q3 - 1)))]

\* Base64 characters are written by their value 0..63; the others:
Pad == 64          \* =
Minus == 65        \* -
Underscore == 66   \* _

\* btoa: three code units make four characters, the tail is padded; a code
\* unit above 255 is an InvalidCharacterError.
Btoa(t) ==
  IF \E x \in 1..Len(t) : t[x] > 255 THEN Failure
  ELSE [j \in 1..(4 * ((Len(t) + 2) \div 3)) |->
         LET g == (j - 1) \div 4
             b1 == t[3 * g + 1]
             b2 == IF 3 * g + 2 <= Len(t) THEN t[3 * g + 2] ELSE 0
             b3 == IF 3 * g + 3 <= Len(t) THEN t[3 * g + 3] ELSE 0
         IN CASE (j - 1) % 4 = 0 -> b1 \div 4
              [] (j - 1) % 4 = 1 -> (b1 % 4) * 16 + (b2 \div 16)
              [] (j - 1) % 4 = 2 ->
                   IF 3 * g + 2 > Len(t) THEN Pad
                   ELSE (b2 % 16) * 4 + (b3 \div 64)
              [] (j - 1) % 4 = 3 ->
                   IF 3 * g + 3 > Len(t) THEN Pad ELSE b3 % 64]

\* .replace(/[+/]/g, c => c === '+' ? '-' : '_').replace(/=/g, '')
ToBase64Url(b) ==
  LET NotPad(c) == c # Pad
      kept == SelectSeq(b, NotPad) IN
  [x \in 1..Len(kept) |->
     IF kept[x] = 62 THEN Minus ELSE IF kept[x] = 63 THEN Underscore ELSE kept[x]]

\* atob: padding of a text whose length divides by four is dropped, a rest
\* of one character or a character outside the base64 alphabet is an
\* InvalidCharacterError, and four characters make three code units.
Atob(b) ==
  LET n == Len(b)
      cut == IF n > 0 /\ n % 4 = 0 /\ b[n] = Pad
             THEN (IF b[n - 1] = Pad THEN 2 ELSE 1) ELSE 0
      s == [x \in 1..(n - cut) |-> b[x]]
      m == Len(s) IN
  IF m % 4 = 1 \/ \E x \in 1..m : s[x] \notin 0..63 THEN Failure
  ELSE [x \in 1..((m * 6) \div 8) |->
         LET g == (x - 1) \div 3
             c1 == s[4 * g + 1]
             c2 == s[4 * g + 2]
             c3 == IF 4 * g + 3 <= m THEN s[4 * g + 3] ELSE 0
             c4 == IF 4 * g + 4 <= m THEN s[4 * g + 4] ELSE 0
         IN CASE (x - 1) % 3 = 0 -> c1 * 4 + (c2 \div 16)
              [] (x - 1) % 3 = 1 -> (c2 % 16) * 16 + (c3 \div 4)
              [] (x - 1) % 3 = 2 -> (c3 % 4) * 64 + c4]

(***************************************************************************)
(* Session restore (initializeAuth)                                        *)
(***************************************************************************)
Throw == [k |-> "throw"]

\* JSON.parse of a stored text.
JSONParse(raw) ==
  IF raw.k = "obj" THEN raw
  ELSE IF raw.s \in {"null", "0"} THEN [k |-> "falsy"]
  ELSE IF raw.s = "5" THEN [k |-> "prim"]
  ELSE IF raw.s = "[]" THEN [k |-> "array"]
  ELSE Throw

\* JSON.parse(atob(storedToken.split('.')[1]))
DecodePayload(t) ==
  IF t.k = "jwt"
  THEN (LET text == Atob(t.seg) IN
        IF text = Failure THEN Throw ELSE JsonParsePayload(text))
  ELSE IF t.k # "tok" THEN Throw            \* split is not a function
  ELSE IF t.segs < 2 THEN Throw             \* atob(undefined)
  ELSE IF t.pl.k \in {"badb64", "notjson"} THEN Throw
  ELSE t.pl

IsExpiredAtBoundary(p, now) == p.k = "exp" /\ p.exp * MsPerSec <= now

\* tokenPayload.exp * 1000 < Date.now(); a payload without exp gives NaN,
\* and NaN < n is false.
IsExpired(p, now) == p.k = "exp" /\ p.exp * MsPerSec < now

\* The try block around the token check: "throw", "expired" or "valid".
TokenCheck(t, now) ==
  LET p == DecodePayload(t) IN
  IF p = Throw \/ p.k = "jsonnull" THEN "throw"
  ELSE IF IsExpired(p, now) THEN "expired"
  ELSE "valid"

Session(s, t, u, a) ==
  [storage |-> s, token |-> t, user |-> u, isAuthenticated |-> a]

RestoreResultKeepsExpired(raw, now) ==
  IF raw.k = "obj" /\ Truthy(raw.token) /\ Truthy(raw.user)
     /\ TokenCheck(raw.token, now) = "expired"
  THEN Session(raw, Null, Null, FALSE)
  ELSE Session(Absent, Null, Null, FALSE)

\* The state initializeAuth leaves, from the stored value and the clock.
RestoreResult(raw, now) ==
  IF raw = Absent \/ (raw.k = "text" /\ raw.s \in {"", "undefined", "null"})
  THEN Session(Absent, Null, Null, FALSE)
  ELSE LET parsed == JSONParse(raw) IN
    IF parsed = Throw THEN Session(Absent, Null, Null, FALSE)
    ELSE IF parsed.k \in {"falsy", "prim"} THEN Session(Absent, Null, Null, FALSE)
    ELSE IF parsed.k = "obj" /\ Truthy(parsed.token) /\ Truthy(parsed.user)
    THEN LET c == TokenCheck(parsed.token, now) IN
      IF c = "valid" THEN Session(raw, parsed.token, parsed.user, TRUE)
      ELSE Session(Absent, Null, Null, FALSE)
    ELSE Session(raw, Null, Null, FALSE)

Ret(op, result, net, tok, usr, raw, now) ==
  [op |-> op, result |-> result, net |-> net, tok |-> tok, usr |-> usr,
   raw |-> raw, now |-> now]

NoRet == Ret("none", "none", "none", Null, Null, Absent, 0)

\* An async operation in flight: the await it is parked at, the token its
\* closure captured, the stored user when it was called, and (for a refresh
\* that failed) how it failed.
Call(op, pc, tok, user0, why) ==
  [op |-> op, pc |-> pc, tok |-> tok, user0 |-> user0, why |-> why]

Idle == Call("idle", "idle", Null, Null, "none")

Slots == 1..MaxCalls

InitializeAuth ==
  /\ isLoading
  /\ \E now \in Nows :
       LET r == RestoreResult(storage, now) IN
       /\ storage' = r.storage
       /\ token' = r.token
       /\ user' = r.user
       /\ isAuthenticated' = r.isAuthenticated
       /\ ret' = Ret("restore", "done", "none", Null, Null, storage, now)
  /\ isLoading' = FALSE
  /\ UNCHANGED calls
  /\ UNCHANGED <<svars, dvars, mvars>>

(***************************************************************************)
(* login, register                                                         *)
(***************************************************************************)
\* How the request of login/register can end: fetch rejects, the status is
\* not ok, response.json() rejects, localStorage.setItem throws, or all
\* succeed.
AuthOutcomes == {"ok", "notok", "neterr", "badbody", "quota"}

Park(c, call) == calls' = [calls EXCEPT ![c] = call]

Finish(c) == calls' = [calls EXCEPT ![c] = Idle]

LoginCall(c) ==
  /\ ~isLoading
  /\ calls[c] = Idle
  /\ Park(c, Call("login", "fetch", Null, Null, "none"))
  /\ ret' = NoRet
  /\ UNCHANGED <<storage, token, user, isLoading, isAuthenticated>>
  /\ UNCHANGED <<svars, dvars, mvars>>

LoginSucceedTokenOnly(c, t, u) ==
  /\ storage' = Stringify(t, Undefined)
  /\ token' = t
  /\ user' = u
  /\ isAuthenticated' = TRUE
  /\ ret' = Ret("login", "success", "ok", t, u, Absent, 0)
  /\ Finish(c)
  /\ UNCHANGED isLoading
  /\ UNCHANGED <<svars, dvars, mvars>>

LoginSucceed(c, t, u) ==
  /\ storage' = Stringify(t, u)
  /\ token' = t
  /\ user' = u
  /\ isAuthenticated' = TRUE
  /\ ret' = Ret("login", "success", "ok", t, u, Absent, 0)
  /\ Finish(c)
  /\ UNCHANGED isLoading
  /\ UNCHANGED <<svars, dvars, mvars>>

LoginFail(c, net) ==
  /\ ret' = Ret("login", "failure", net, Null, Null, Absent, 0)
  /\ Finish(c)
  /\ UNCHANGED <<storage, token, user, isLoading, isAuthenticated>>
  /\ UNCHANGED <<svars, dvars, mvars>>

LoginReturn(c) ==
  /\ calls[c].op = "login"
  /\ \E net \in AuthOutcomes, t \in RespTokens, u \in Users :
       IF net = "ok" THEN LoginSucceed(c, t, u) ELSE LoginFail(c, net)

RegisterCall(c) ==
  /\ ~isLoading
  /\ calls[c] = Idle
  /\ Park(c, Call("register", "fetch", Null, Null, "none"))
  /\ ret' = NoRet
  /\ UNCHANGED <<storage, token, user, isLoading, isAuthenticated>>
  /\ UNCHANGED <<svars, dvars, mvars>>

RegisterSucceed(c, t, u) ==
  /\ storage' = Stringify(t, u)
  /\ token' = t
  /\ user' = u
  /\ isAuthenticated' = TRUE
  /\ ret' = Ret("register", "success", "ok", t, u, Absent, 0)
  /\ Finish(c)
  /\ UNCHANGED isLoading
  /\ UNCHANGED <<svars, dvars, mvars>>

RegisterFailClears(c, net) ==
  /\ ret' = Ret("register", "failure", net, Null, Null, Absent, 0)
  /\ Finish(c)
  /\ storage' = Absent
  /\ token' = Null
  /\ user' = Null
  /\ isAuthenticated' = FALSE
  /\ UNCHANGED isLoading
  /\ UNCHANGED <<svars, dvars, mvars>>

RegisterFail(c, net) ==
  /\ ret' = Ret("register", "failure", net, Null, Null, Absent, 0)
  /\ Finish(c)
  /\ UNCHANGED <<storage, token, user, isLoading, isAuthenticated>>
  /\ UNCHANGED <<svars, dvars, mvars>>

RegisterReturn(c) ==
  /\ calls[c].op = "register"
  /\ \E net \in AuthOutcomes, t \in RespTokens, u \in Users :
       IF net = "ok" THEN RegisterSucceed(c, t, u) ELSE RegisterFail(c, net)

(***************************************************************************)
(* logout                                                                  *)
(***************************************************************************)
\* How the logout request can end; the code looks at none of them.
LogoutOutcomes == {"ok", "notok", "neterr"}

\* The finally block of logout.
ClearSession ==
  /\ storage' = Absent
  /\ token' = Null
  /\ user' = Null
  /\ isAuthenticated' = FALSE

\* Without a token logout awaits nothing and runs to its end in the call.
LogoutCall(c) ==
  /\ ~isLoading
  /\ calls[c] = Idle
  /\ IF Truthy(token)
     THEN /\ Park(c, Call("logout", "fetch", token, Null, "none"))
          /\ ret' = NoRet
          /\ UNCHANGED <<storage, token, user, isAuthenticated>>
     ELSE /\ ClearSession
          /\ ret' = Ret("logout", "done", "none", Null, Null, Absent, 0)
          /\ UNCHANGED calls
  /\ UNCHANGED isLoading
  /\ UNCHANGED <<svars, dvars, mvars>>

LogoutReturnClearsOnSuccessOnly(c) ==
  /\ calls[c].op = "logout"
  /\ \E net \in LogoutOutcomes :
       /\ ret' = Ret("logout", "done", net, calls[c].tok, Null, Absent, 0)
       /\ IF net = "neterr"
          THEN UNCHANGED <<storage, token, user, isAuthenticated>>
          ELSE ClearSession
  /\ Finish(c)
  /\ UNCHANGED isLoading
  /\ UNCHANGED <<svars, dvars, mvars>>

LogoutReturn(c) ==
  /\ calls[c].op = "logout"
  /\ \E net \in LogoutOutcomes :
       ret' = Ret("logout", "done", net, calls[c].tok, Null, Absent, 0)
  /\ ClearSession
  /\ Finish(c)
  /\ UNCHANGED isLoading
  /\ UNCHANGED <<svars, dvars, mvars>>

(***************************************************************************)
(* refreshToken                                                            *)
(***************************************************************************)
\* The user of the stored record, as a later merge would read it.
StoredUser(raw) == IF raw.k = "obj" THEN raw.user ELSE Undefined

\* JSON.parse(localStorage.getItem(AUTH_KEY) || '{}'), spread into an object.
CurrentAuth(raw) ==
  IF raw = Absent \/ (raw.k = "text" /\ raw.s = "")
  THEN Stringify(Undefined, Undefined)
  ELSE LET parsed == JSONParse(raw) IN
    IF parsed = Throw THEN Throw
    ELSE IF parsed.k = "obj" THEN parsed
    ELSE Stringify(Undefined, Undefined)

RefreshCallAlwaysFetches(c) ==
  /\ ~isLoading
  /\ calls[c] = Idle
  /\ Park(c, Call("refresh", "fetch", token, StoredUser(storage), "none"))
  /\ ret' = NoRet
  /\ UNCHANGED <<storage, token, user, isLoading, isAuthenticated>>
  /\ UNCHANGED <<svars, dvars, mvars>>

\* refreshToken up to its fetch; without a token it returns false at once.
RefreshCall(c) ==
  /\ ~isLoading
  /\ calls[c] = Idle
  /\ IF Truthy(token)
     THEN /\ Park(c, Call("refresh", "fetch", token, StoredUser(storage), "none"))
          /\ ret' = NoRet
     ELSE /\ ret' = Ret("refresh", "false", "none", Null, Null, Absent, 0)
          /\ UNCHANGED calls
  /\ UNCHANGED <<storage, token, user, isLoading, isAuthenticated>>
  /\ UNCHANGED <<svars, dvars, mvars>>

RefreshSucceedAuthenticates(c, t) ==
  /\ storage' = Stringify(t, CurrentAuth(storage).user)
  /\ token' = t
  /\ isAuthenticated' = TRUE
  /\ ret' = Ret("refresh", "true", "ok", t, calls[c].user0, Absent, 0)
  /\ Finish(c)
  /\ UNCHANGED <<user, isLoading>>
  /\ UNCHANGED <<svars, dvars, mvars>>

\* The response is ok: the stored object is read, the new token is laid
\* over it and written back, and setToken is called.
RefreshSucceed(c, t) ==
  /\ storage' = Stringify(t, CurrentAuth(storage).user)
  /\ token' = t
  /\ ret' = Ret("refresh", "true", "ok", t, calls[c].user0, Absent, 0)
  /\ Finish(c)
  /\ UNCHANGED <<user, isLoading, isAuthenticated>>
  /\ UNCHANGED <<svars, dvars, mvars>>

RefreshCatchWithoutLogout(c, why) ==
  /\ Finish(c)
  /\ ret' = Ret("refresh", "false", why, Null, calls[c].user0, Absent, 0)
  /\ UNCHANGED <<storage, token, user, isLoading, isAuthenticated>>
  /\ UNCHANGED <<svars, dvars, mvars>>

\* The catch block: logout() is called; the logout of the same render sees
\* the token the refresh saw, so it sends its request and awaits it.
RefreshCatch(c, why) ==
  /\ Park(c, Call("refresh", "logout", calls[c].tok, calls[c].user0, why))
  /\ ret' = NoRet
  /\ UNCHANGED <<storage, token, user, isLoading, isAuthenticated>>
  /\ UNCHANGED <<svars, dvars, mvars>>

RefreshResponse(c) ==
  /\ calls[c].op = "refresh"
  /\ calls[c].pc = "fetch"
  /\ \E net \in AuthOutcomes, t \in RespTokens :
       IF net = "ok" /\ CurrentAuth(storage) # Throw
       THEN RefreshSucceed(c, t)
       ELSE RefreshCatch(c, IF net = "ok" THEN "badstore" ELSE net)

\* The awaited logout ends (its finally block), then refreshToken returns
\* false in the same turn of the event loop.
RefreshLogoutReturn(c) ==
  /\ calls[c].op = "refresh"
  /\ calls[c].pc = "logout"
  /\ ClearSession
  /\ ret' = Ret("refresh", "false", calls[c].why, Null, calls[c].user0, Absent, 0)
  /\ Finish(c)
  /\ UNCHANGED isLoading
  /\ UNCHANGED <<svars, dvars, mvars>>

(***************************************************************************)
(* The registration handler (onRequestPost of src/unnamed/part_001)        *)
(***************************************************************************)
RegSlots == 1..NumRequests

SeqsUpTo(S, n) == UNION {[1..m -> S] : m \in 0..n}

IsWhitespace(ch) == ch = " "

\* The character class [^\s@].
NotSpaceNorAt(ch) == ~IsWhitespace(ch) /\ ch # "@"

EmailRegexTestNoTld(s) ==
  \E i \in 2..(Len(s) - 1) :
    /\ s[i] = "@"
    /\ \A x \in (1..(i - 1)) \cup ((i + 1)..Len(s)) : NotSpaceNorAt(s[x])

\* /^[^\s@]+@[^\s@]+\.[^\s@]+$/.test(s): the text splits into a run, an at
\* sign, a run, a dot and a run, each run non-empty and of the class.
EmailRegexTest(s) ==
  \E i \in 2..Len(s) : \E j \in (i + 2)..(Len(s) - 1) :
    /\ s[i] = "@"
    /\ s[j] = "."
    /\ \A x \in (1..(i - 1)) \cup ((i + 1)..(j - 1)) \cup ((j + 1)..Len(s)) :
         NotSpaceNorAt(s[x])

\* A request body: text that request.json() cannot parse, the JSON value
\* null, or an object whose fields are strings or missing.
Unparseable == [k |-> "unparseable"]

JsonNull == [k |-> "jsonnull"]

Body(f, e, p) == [k |-> "json", firstName |-> f, email |-> e, password |-> p]

NoBody == [k |-> "none"]

FirstNames == {Undefined, Str(<<>>), Str(<<"a">>), Str(<<NonLatin1>>)}

Passwords == {Undefined, Str(<<>>), Str(<<"a">>)}

AllEmails == {Undefined} \cup {Str(s) : s \in SeqsUpTo(Alphabet, MaxEmailLen)}

\* Every body up to the length bound.
AllBodies ==
  {Unparseable, JsonNull}
    \cup {Body(f, e, p) : f \in FirstNames, e \in AllEmails, p \in Passwords}

\* The few bodies that concurrent requests are drawn from.
FewEmails ==
  {Str(<<"a", "@", "a", ".", "a">>), Str(<<".", "@", "a", ".", "a">>),
   Str(<<"a", "@", "a">>)}

FewBodies ==
  {Unparseable}
    \cup {Body(f, e, Str(<<"a">>)) :
            f \in {Str(<<"a">>), Str(<<Latin1Letter>>), Str(<<NonLatin1>>)},
            e \in FewEmails}

Resp(status, code, tok, usr) ==
  [status |-> status, code |-> code, token |-> tok, user |-> usr]

NoResp == Resp(0, "none", Null, Null)

\* A request: where its handler is parked, its body, the id drawn for the
\* new user, the response, the store and signing steps done for it, and
\* whether the platform (store, body stream, signing) failed under it.
Req(pc, body, id, resp, did, fault) ==
  [pc |-> pc, body |-> body, id |-> id, resp |-> resp, did |-> did,
   fault |-> fault]

Unused == Req("unused", NoBody, 0, NoResp, {}, FALSE)

\* hashPassword: the hex SHA-256 digest of the text, never the text.
HashPassword(p) == [k |-> "sha256hex", of |-> p.s]

Row(id, f, e, h) ==
  [id |-> id, first_name |-> f, email |-> e, password_hash |-> h]

\* generateUUID draws a random version-4 id; two draws do not collide.
GenerateUUID(r) == r

\* SELECT id FROM users WHERE email = ?  ... first()
FindByEmail(e) == {row \in table : row.email = e}

\* The UNIQUE constraint of users.email, which makes the INSERT fail.
UniqueViolation(e) == FindByEmail(e) # {}

\* btoa throws on a character outside Latin-1.
BtoaThrows(payload) ==
  \E x \in 1..Len(payload.firstName.s) : payload.firstName.s[x] = NonLatin1

\* generateJWT: header.payload.signature over the payload and the secret.
GenerateJWT(payload) ==
  [k |-> "jwt", alg |-> "HS256", pl |-> payload,
   seg |-> ToBase64Url(Btoa(JsonText(payload)))]

SecondsPerDay == 86400

\* Date.now() values of the server, either side of a second boundary.
ServerNows == {999, 1000}

TokenPayload(id, data, n1, n2) ==
  [userId |-> id, email |-> data.email, firstName |-> data.firstName,
   iat |-> n1 \div MsPerSec, exp |-> (n2 \div MsPerSec) + SecondsPerDay]

Respond(r, resp, steps, fault) ==
  reqs' = [reqs EXCEPT ![r] =
             Req("done", @.body, @.id, resp, @.did \cup steps, fault)]

Await(r, pc, id, steps) ==
  reqs' = [reqs EXCEPT ![r] =
             Req(pc, @.body, id, NoResp, @.did \cup steps, FALSE)]

ReceiveChecksSecretOnly(r) ==
  /\ reqs[r].pc = "new"
  /\ IF ~env.JWT_SECRET
     THEN Respond(r, Resp(503, "CONFIG_ERROR", Null, Null), {}, FALSE)
     ELSE Await(r, "json", 0, {})
  /\ UNCHANGED <<env, table>>
  /\ UNCHANGED <<cvars, dvars, mvars>>

\* The handler up to `await request.json()`: the configuration checks.
Receive(r) ==
  /\ reqs[r].pc = "new"
  /\ IF ~env.JWT_SECRET \/ ~env.DB
     THEN Respond(r, Resp(503, "CONFIG_ERROR", Null, Null), {}, FALSE)
     ELSE Await(r, "json", 0, {})
  /\ UNCHANGED <<env, table>>
  /\ UNCHANGED <<cvars, dvars, mvars>>

FieldsMissing(data) ==
  ~Truthy(data.firstName) \/ ~Truthy(data.email) \/ ~Truthy(data.password)

\* From the parsed body to the SELECT being sent.
ParseAndValidate(r) ==
  /\ reqs[r].pc = "json"
  /\ LET data == reqs[r].body IN
     IF data.k # "json"
     THEN Respond(r, Resp(500, "INTERNAL_ERROR", Null, Null), {}, data = Unparseable)
     ELSE IF FieldsMissing(data)
     THEN Respond(r, Resp(400, "VALIDATION_ERROR", Null, Null), {}, FALSE)
     ELSE IF ~EmailRegexTest(data.email.s)
     THEN Respond(r, Resp(400, "VALIDATION_ERROR", Null, Null), {}, FALSE)
     ELSE Await(r, "select", 0, {})
  /\ UNCHANGED <<env, table>>
  /\ UNCHANGED <<cvars, dvars, mvars>>

\* The SELECT resolves (or the store fails); hashPassword is awaited and
\* the INSERT is sent.
SelectDone(r) ==
  /\ reqs[r].pc = "select"
  /\ \E dbok \in BOOLEAN :
       IF ~dbok
       THEN Respond(r, Resp(500, "INTERNAL_ERROR", Null, Null), {}, TRUE)
       ELSE IF FindByEmail(reqs[r].body.email) # {}
       THEN Respond(r, Resp(409, "USER_EXISTS", Null, Null), {"select"}, FALSE)
       ELSE Await(r, "insert", GenerateUUID(r), {"select"})
  /\ UNCHANGED <<env, table>>
  /\ UNCHANGED <<cvars, dvars, mvars>>

\* The INSERT resolves, or rejects (store failure, UNIQUE constraint) and
\* the catch block answers; then generateJWT is awaited.
InsertDone(r) ==
  /\ reqs[r].pc = "insert"
  /\ LET data == reqs[r].body IN
     \E dbok \in BOOLEAN :
       IF ~dbok
       THEN /\ Respond(r, Resp(500, "INTERNAL_ERROR", Null, Null), {}, TRUE)
            /\ UNCHANGED table
       ELSE IF UniqueViolation(data.email)
       THEN /\ Respond(r, Resp(500, "INTERNAL_ERROR", Null, Null), {}, FALSE)
            /\ UNCHANGED table
       ELSE /\ table' = table \cup
                 {Row(reqs[r].id, data.firstName, data.email,
                      HashPassword(data.password))}
            /\ Await(r, "sign", reqs[r].id, {"insert"})
  /\ UNCHANGED env
  /\ UNCHANGED <<cvars, dvars, mvars>>

\* generateJWT resolves, or btoa throws and the catch block answers.
SignDone(r) ==
  /\ reqs[r].pc = "sign"
  /\ LET data == reqs[r].body IN
     \E n1 \in ServerNows, n2 \in ServerNows :
       /\ n1 <= n2
       /\ LET payload == TokenPayload(reqs[r].id, data, n1, n2) IN
          IF BtoaThrows(payload)
          THEN Respond(r, Resp(500, "INTERNAL_ERROR", Null, Null), {}, FALSE)
          ELSE Respond(r,
                 Resp(201, "none", GenerateJWT(payload),
                      [id |-> reqs[r].id, firstName |-> data.firstName,
                       email |-> data.email]),
                 {"sign"}, FALSE)
  /\ UNCHANGED <<env, table>>
  /\ UNCHANGED <<cvars, dvars, mvars>>

Envs == [JWT_SECRET : BOOLEAN, DB : BOOLEAN]

RegisterNext ==
  \E r \in RegSlots :
    \/ Receive(r)
    \/ ParseAndValidate(r)
    \/ SelectDone(r)
    \/ InsertDone(r)
    \/ SignDone(r)

(***************************************************************************)
(* ApiService (getToken, getHeaders) and getAuthHeaders                    *)
(***************************************************************************)
\* ApiService.getToken: the token of the stored object, or null.
GetToken(raw) ==
  IF raw = Absent \/ (raw.k = "text" /\ raw.s = "") THEN Null
  ELSE LET parsed == JSONParse(raw) IN
    IF parsed = Throw THEN Null
    ELSE IF parsed.k \in {"falsy", "prim"} THEN Null
    ELSE IF parsed.k = "obj" /\ Truthy(parsed.token) THEN parsed.token
    ELSE Null

\* The Authorization header getHeaders and getAuthHeaders build from a
\* token: Bearer and the token, or no header.
Authorization(t) == IF Truthy(t) THEN [k |-> "bearer", token |-> t] ELSE Null

(***************************************************************************)
(* The debugging registration endpoint (second onRequestPost)              *)
(***************************************************************************)
\* A response of the debugging endpoint: the status, error.code ("absent"
\* when the body has none), error.message, and the further keys of the
\* error object.
SimpleResp(status, code, message, extra) ==
  [status |-> status, code |-> code, message |-> message, extra |-> extra]

NoSimpleResp == SimpleResp(0, "none", "none", {})

SimpleReq(pc, body, resp) == [pc |-> pc, body |-> body, resp |-> resp]

SimpleUnused == SimpleReq("unused", NoBody, NoSimpleResp)

SimpleRespond(resp) == simple' = SimpleReq("done", simple.body, resp)

\* The endpoint up to `await env.DB.prepare('SELECT 1 as test').first()`.
SimpleReceive ==
  /\ simple.pc = "new"
  /\ IF ~env.JWT_SECRET
     THEN SimpleRespond(SimpleResp(500, "absent", "Missing JWT_SECRET",
                                   {"availableKeys", "debug"}))
     ELSE IF ~env.DB
     THEN SimpleRespond(SimpleResp(500, "absent", "Missing DB", {}))
     ELSE simple' = SimpleReq("dbtest", simple.body, NoSimpleResp)
  /\ UNCHANGED <<cvars, svars, mvars>>

\* The test query resolves or rejects; `await request.json()` is next.
SimpleDbTest ==
  /\ simple.pc = "dbtest"
  /\ \E ok \in BOOLEAN :
       IF ok
       THEN simple' = SimpleReq("json", simple.body, NoSimpleResp)
       ELSE SimpleRespond(SimpleResp(500, "absent", "DB connection failed",
                                     {"details"}))
  /\ UNCHANGED <<cvars, svars, mvars>>

\* From the parsed body to the response; a body that cannot be parsed and
\* a null body (data.firstName of null) end in the catch block.
SimpleParse ==
  /\ simple.pc = "json"
  /\ LET data == simple.body IN
     IF data.k # "json"
     THEN SimpleRespond(SimpleResp(500, "absent", "Simple registration failed",
                                   {"details", "stack"}))
     ELSE IF FieldsMissing(data)
     THEN SimpleRespond(SimpleResp(400, "absent", "Missing required fields", {}))
     ELSE SimpleRespond(SimpleResp(200, "absent",
                                   "Registration endpoint is working!", {}))
  /\ UNCHANGED <<cvars, svars, mvars>>

SimpleNext == SimpleReceive \/ SimpleDbTest \/ SimpleParse

(***************************************************************************)
(* Migration (checkMigrationNeeded, runMigration, skipMigration,           *)
(* retryMigration)                                                         *)
(***************************************************************************)
MigSlots == 1..MaxMigrations

ListenerIds == 1..MaxListeners

Progress(status, total, completed, failed) ==
  [status |-> status, total |-> total, completed |-> completed,
   failed |-> failed]

\* { status: 'starting', total: 0, completed: 0, failed: 0 }
Starting == Progress("starting", 0, 0, 0)

\* The useState initial value of migrationStatus.
InitialMigrationStatus ==
  [isNeeded |-> FALSE, isRunning |-> FALSE, progress |-> Null,
   completed |-> FALSE, error |-> Null]

\* What migratePrompts can resolve with.
Results ==
  {[total |-> m + f, migrated |-> m, failed |-> f] :
     m \in 0..MaxMigrated, f \in 0..MaxFailed}

\* What the migration service reports to its listeners while it runs.
ProgressReports ==
  {Progress("migrating", MaxMigrated + MaxFailed, c, f) :
     c \in 0..MaxMigrated, f \in 0..MaxFailed}

\* The messages of the errors migratePrompts can throw.
ErrorMessages == {"Failed to migrate"}

AlreadyRunning == "Migration is already running"

\* A runMigration call: where it is parked and the listener it registered.
Mig(pc, listener) == [pc |-> pc, listener |-> listener]

MigIdle == Mig("idle", 0)

MRet(op, slot, outcome, result, thrown) ==
  [op |-> op, slot |-> slot, outcome |-> outcome, result |-> result,
   thrown |-> thrown]

NoMRet == MRet("none", 0, "none", Null, Null)

MigrationIdle ==
  /\ migrationStatus = InitialMigrationStatus
  /\ renderedRunning = FALSE
  /\ listeners = {}
  /\ migs = [s \in MigSlots |-> MigIdle]
  /\ mret = NoMRet

\* migrationService.addProgressListener: the listener is held until the
\* returned handle is called.
AddProgressListener(i) == listeners' = listeners \cup {i}

\* The handle addProgressListener returned.
RemoveListener(i) == listeners' = listeners \ {i}

\* React renders the provider again: the functions of the new context
\* value close over the current migrationStatus.
Render ==
  /\ renderedRunning # migrationStatus.isRunning
  /\ renderedRunning' = migrationStatus.isRunning
  /\ mret' = MRet("render", 0, "none", Null, Null)
  /\ UNCHANGED <<migrationStatus, listeners, migs>>
  /\ UNCHANGED <<cvars, svars, dvars>>

\* checkMigrationNeeded, also run by the timers login and register set.
CheckMigrationNeeded ==
  /\ \E needed \in BOOLEAN :
       /\ migrationStatus' = [migrationStatus EXCEPT !.isNeeded = needed]
       /\ mret' = MRet("checkMigrationNeeded", 0,
                       IF needed THEN "true" ELSE "false", Null, Null)
  /\ UNCHANGED <<renderedRunning, listeners, migs>>
  /\ UNCHANGED <<cvars, svars, dvars>>

\* runMigration up to `await migrationService.migratePrompts()`: the check
\* of the isRunning this render closed over, the Running status, the
\* listener.
RunMigration(op, s) ==
  /\ migs[s].pc = "idle"
  /\ IF renderedRunning
     THEN /\ mret' = MRet(op, s, "thrown", Null, AlreadyRunning)
          /\ UNCHANGED <<migrationStatus, listeners, migs>>
     ELSE /\ ListenerIds \ listeners # {}
          /\ LET free == ListenerIds \ listeners
                 i == CHOOSE x \in free : \A y \in free : x <= y IN
             /\ migrationStatus' =
                  [migrationStatus EXCEPT !.isRunning = TRUE, !.error = Null,
                                          !.progress = Starting]
             /\ AddProgressListener(i)
             /\ migs' = [migs EXCEPT ![s] = Mig("migrating", i)]
             /\ mret' = MRet(op, s, "started", Null, Null)
  /\ UNCHANGED renderedRunning
  /\ UNCHANGED <<cvars, svars, dvars>>

RunMigrationCall(s) == RunMigration("runMigration", s)

\* retryMigration returns runMigration().
RetryMigrationCall(s) == RunMigration("retryMigration", s)

\* The service reports progress: every listener stores the report.
ProgressEvent ==
  /\ \E s \in MigSlots : migs[s].pc = "migrating"
  /\ listeners # {}
  /\ \E p \in ProgressReports :
       migrationStatus' = [migrationStatus EXCEPT !.progress = p]
  /\ mret' = MRet("progress", 0, "none", Null, Null)
  /\ UNCHANGED <<renderedRunning, listeners, migs>>
  /\ UNCHANGED <<cvars, svars, dvars>>

TerminalStatus(result) ==
  IF result.failed > 0 THEN "completed_with_errors" ELSE "completed"

MigrateResolveAlwaysCompleted(s) ==
  /\ migs[s].pc = "migrating"
  /\ \E result \in Results :
       /\ RemoveListener(migs[s].listener)
       /\ migrationStatus' =
            [migrationStatus EXCEPT
               !.isRunning = FALSE, !.completed = TRUE, !.isNeeded = FALSE,
               !.progress = Progress("completed", result.total,
                                     result.migrated, result.failed)]
       /\ mret' = MRet("return", s, "resolved", result, Null)
  /\ migs' = [migs EXCEPT ![s] = MigIdle]
  /\ UNCHANGED renderedRunning
  /\ UNCHANGED <<cvars, svars, dvars>>

\* migratePrompts resolves: the listener is removed, the final status is
\* stored and the result returned.
MigrateResolve(s) ==
  /\ migs[s].pc = "migrating"
  /\ \E result \in Results :
       /\ RemoveListener(migs[s].listener)
       /\ migrationStatus' =
            [migrationStatus EXCEPT
               !.isRunning = FALSE, !.completed = TRUE, !.isNeeded = FALSE,
               !.progress = Progress(TerminalStatus(result), result.total,
                                     result.migrated, result.failed)]
       /\ mret' = MRet("return", s, "resolved", result, Null)
  /\ migs' = [migs EXCEPT ![s] = MigIdle]
  /\ UNCHANGED renderedRunning
  /\ UNCHANGED <<cvars, svars, dvars>>

\* { ...prev.progress, status: 'failed' }
FailedProgress(p) ==
  IF p = Null
  THEN Progress("failed", Undefined, Undefined, Undefined)
  ELSE [p EXCEPT !.status = "failed"]

\* migratePrompts throws: the catch block stores the failure and throws
\* the error again.
MigrateReject(s) ==
  /\ migs[s].pc = "migrating"
  /\ \E msg \in ErrorMessages :
       /\ migrationStatus' =
            [migrationStatus EXCEPT
               !.isRunning = FALSE, !.error = msg,
               !.progress = FailedProgress(@)]
       /\ mret' = MRet("return", s, "rejected", Null, msg)
  /\ migs' = [migs EXCEPT ![s] = MigIdle]
  /\ UNCHANGED <<renderedRunning, listeners>>
  /\ UNCHANGED <<cvars, svars, dvars>>

SkipMigration ==
  /\ migrationStatus' =
       [migrationStatus EXCEPT !.isNeeded = FALSE, !.completed = FALSE]
  /\ mret' = MRet("skipMigration", 0, "none", Null, Null)
  /\ UNCHANGED <<renderedRunning, listeners, migs>>
  /\ UNCHANGED <<cvars, svars, dvars>>

MigrationNext ==
  \/ Render
  \/ CheckMigrationNeeded
  \/ SkipMigration
  \/ ProgressEvent
  \/ \E s \in MigSlots :
       \/ RunMigrationCall(s) \/ RetryMigrationCall(s)
       \/ MigrateResolve(s) \/ MigrateReject(s)

(***************************************************************************)
(* Specifications                                                          *)
(***************************************************************************)
ClientInit ==
  /\ storage \in PersistedValues
  /\ token = Null
  /\ user = Null
  /\ isLoading = TRUE
  /\ isAuthenticated = FALSE
  /\ calls = [c \in Slots |-> Idle]
  /\ ret = NoRet

ServerIdle ==
  /\ env \in Envs
  /\ table = {}

\* The client session; no register request reaches the handler.
Init ==
  /\ ClientInit
  /\ env = [JWT_SECRET |-> TRUE, DB |-> TRUE]
  /\ table = {}
  /\ reqs = [r \in RegSlots |-> Unused]
  /\ simple = SimpleUnused
  /\ MigrationIdle

Next ==
  \/ InitializeAuth
  \/ \E c \in Slots :
       \/ LoginCall(c) \/ LoginReturn(c)
       \/ RegisterCall(c) \/ RegisterReturn(c)
       \/ LogoutCall(c) \/ LogoutReturn(c)
       \/ RefreshCall(c) \/ RefreshResponse(c) \/ RefreshLogoutReturn(c)

Spec == Init /\ [][Next]_vars

\* The client before it is mounted.
ClientUnmounted ==
  /\ storage = Absent
  /\ token = Null
  /\ user = Null
  /\ isLoading = TRUE
  /\ isAuthenticated = FALSE
  /\ calls = [c \in Slots |-> Idle]
  /\ ret = NoRet

\* NumRequests register requests handled concurrently.
InitRegister ==
  /\ ClientUnmounted
  /\ ServerIdle
  /\ reqs \in [RegSlots -> {Req("new", b, 0, NoResp, {}, FALSE) : b \in FewBodies}]
  /\ simple = SimpleUnused
  /\ MigrationIdle

SpecRegister == InitRegister /\ [][RegisterNext]_vars

\* One register request, with every body up to the length bound.
InitValidate ==
  /\ ClientUnmounted
  /\ ServerIdle
  /\ \E b \in AllBodies :
       reqs = [r \in RegSlots |->
                 IF r = 1 THEN Req("new", b, 0, NoResp, {}, FALSE) ELSE Unused]
  /\ simple = SimpleUnused
  /\ MigrationIdle

SpecValidate == InitValidate /\ [][RegisterNext]_vars

\* One request to each registration endpoint of the repository.
InitHandlers ==
  /\ ClientUnmounted
  /\ ServerIdle
  /\ \E b \in FewBodies :
       reqs = [r \in RegSlots |->
                 IF r = 1 THEN Req("new", b, 0, NoResp, {}, FALSE) ELSE Unused]
  /\ \E b \in FewBodies \cup {JsonNull} :
       simple = SimpleReq("new", b, NoSimpleResp)
  /\ MigrationIdle

HandlersNext == RegisterNext \/ SimpleNext

SpecHandlers == InitHandlers /\ [][HandlersNext]_vars

\* The mounted provider and its migration functions.
InitMigration ==
  /\ ClientUnmounted
  /\ env = [JWT_SECRET |-> TRUE, DB |-> TRUE]
  /\ table = {}
  /\ reqs = [r \in RegSlots |-> Unused]
  /\ simple = SimpleUnused
  /\ MigrationIdle

SpecMigration == InitMigration /\ [][MigrationNext]_vars

\* migratePrompts settles: its promise resolves or rejects.
SpecMigrationFair ==
  /\ SpecMigration
  /\ \A s \in MigSlots : WF_vars(MigrateResolve(s) \/ MigrateReject(s))

(***************************************************************************)
(* Properties of the client session                                        *)
(***************************************************************************)
Anonymous == token = Null /\ user = Null /\ ~isAuthenticated

\* C1: when logout() completes, whatever the state it started from and
\* whether its request succeeded, returned an error status or threw, the
\* 'auth' key is absent, token and user are null and isAuthenticated is false.
C1_LogoutClears ==
  ret.op = "logout" => storage = Absent /\ Anonymous

C1_Witness ==
  ret.op = "logout" /\ ret.net = "neterr" /\ Truthy(ret.tok) /\ storage = Absent

RefreshFailures == {"notok", "neterr", "badbody", "quota", "badstore"}

\* C2: a refreshToken() called with a token whose refresh fails (status not
\* ok, network exception, unparseable body, storage error) goes through
\* logout and returns false, and when it returns the 'auth' key is absent
\* and the client is Anonymous.
C2_FailedRefreshLogsOut ==
  /\ \A c \in Slots :
       calls[c].op = "refresh" /\ calls[c].why \in RefreshFailures
         => calls[c].pc = "logout"
  /\ ret.op = "refresh" /\ ret.net \in RefreshFailures
       => ret.result = "false" /\ storage = Absent /\ Anonymous

C2_Witness ==
  ret.op = "refresh" /\ ret.net = "badbody" /\ ret.result = "false"
    /\ storage = Absent /\ Anonymous

\* C3: whenever refreshToken() returns true, the stored record holds the new
\* token with the user it held before the call, the in-memory token is the
\* new token and the client is Authenticated, whatever other operations ran
\* while the request was in flight.
C3_RefreshKeepsSession ==
  ret.op = "refresh" /\ ret.result = "true"
    => /\ storage = Stringify(ret.tok, ret.usr)
       /\ token = ret.tok
       /\ isAuthenticated

\* C4: whenever login() or register() returns success, the stored record is
\* exactly the token and user of the response, both present, the in-memory
\* token and user are the same values and isAuthenticated is true.
C4_SuccessPersistsSession ==
  ret.op \in {"login", "register"} /\ ret.result = "success"
    => /\ Truthy(ret.tok) /\ Truthy(ret.usr)
       /\ storage = Stringify(ret.tok, ret.usr)
       /\ token = ret.tok
       /\ user = ret.usr
       /\ isAuthenticated

C4_Witness ==
  ret.op = "register" /\ ret.result = "success" /\ storage.k = "obj"
    /\ storage.token = token /\ storage.user = user

\* C5: login() and register() never throw; a failure (status not ok, network
\* exception, unparseable body) is returned as the value {success:false},
\* and the step that returns it changes neither the stored session nor
\* token, user and isAuthenticated.
C5_FailureIsReturned ==
  [][ret'.op \in {"login", "register"} /\ ret'.result # "success"
       => /\ ret'.result = "failure"
          /\ ret'.net \in AuthOutcomes \ {"ok"}
          /\ UNCHANGED <<storage, token, user, isAuthenticated>>]_vars

C5_Witness ==
  ret.op = "register" /\ ret.result = "failure" /\ ret.net = "badbody"
    /\ isAuthenticated /\ storage # Absent

\* A stored record {token, user} whose token payload decodes and has exp.
HasExp(raw) ==
  /\ raw.k = "obj"
  /\ Truthy(raw.user)
  /\ raw.token.k = "tok"
  /\ raw.token.segs >= 2
  /\ raw.token.pl.k = "exp"

\* C6: restore of a stored record {token, user} whose payload has exp in the
\* past ends Anonymous with isLoading false and the 'auth' key removed.
C6_ExpiredIsDiscarded ==
  ret.op = "restore" /\ HasExp(ret.raw)
      /\ ret.raw.token.pl.exp * MsPerSec < ret.now
    => Anonymous /\ ~isLoading /\ storage = Absent

C6_Witness ==
  ret.op = "restore" /\ HasExp(ret.raw)
    /\ ret.raw.token.pl.exp = 1 /\ ret.now = 2000 /\ storage = Absent

\* C7 as stated: a token whose exp is exactly the current time is expired,
\* a token restored one second before its exp is valid.
C7_EqualIsExpired ==
  ret.op = "restore" /\ HasExp(ret.raw)
    => /\ ret.raw.token.pl.exp * MsPerSec = ret.now
          => Anonymous /\ storage = Absent
       /\ ret.raw.token.pl.exp * MsPerSec = ret.now + MsPerSec
          => isAuthenticated /\ token = ret.raw.token

\* C7 amended: a token whose exp is exactly the current time is still valid;
\* it is expired from one millisecond later on; a token restored one second
\* before its exp is valid.
C7_EqualIsValid ==
  ret.op = "restore" /\ HasExp(ret.raw)
    => /\ ret.raw.token.pl.exp * MsPerSec = ret.now
          => isAuthenticated /\ token = ret.raw.token /\ storage = ret.raw
       /\ ret.raw.token.pl.exp * MsPerSec + 1 = ret.now
          => Anonymous /\ storage = Absent
       /\ ret.raw.token.pl.exp * MsPerSec = ret.now + MsPerSec
          => isAuthenticated /\ token = ret.raw.token

C7_Witness ==
  ret.op = "restore" /\ HasExp(ret.raw)
    /\ ret.raw.token.pl.exp * MsPerSec = ret.now /\ ret.now > 0
    /\ isAuthenticated

\* A stored value that is absent or malformed.
Malformed(raw) ==
  \/ raw = Absent
  \/ raw.k = "text"
  \/ /\ raw.k = "obj"
     /\ \/ ~Truthy(raw.token)
        \/ ~Truthy(raw.user)
        \/ DecodePayload(raw.token) = Throw

\* C8: for every stored value that is absent or malformed, restore does not
\* throw, ends Anonymous with isLoading false, and the 'auth' key is removed.
C8_MalformedIsCleared ==
  ret.op = "restore" /\ Malformed(ret.raw)
    => ret.result = "done" /\ Anonymous /\ ~isLoading /\ storage = Absent


(***************************************************************************)
(* Properties of the registration handler                                  *)
(***************************************************************************)
Configured == env.JWT_SECRET /\ env.DB

\* The email is a text of the shape local@domain.tld: one at sign, no blank,
\* something before the at sign, and after it a dot that has something on
\* both sides.
LocalAtDomainTld(s) ==
  /\ Cardinality({x \in 1..Len(s) : s[x] = "@"}) = 1
  /\ \A x \in 1..Len(s) : s[x] # " "
  /\ s[1] # "@"
  /\ \E x \in 1..Len(s) : \E y \in (x + 2)..(Len(s) - 1) :
       s[x] = "@" /\ s[y] = "."

Empty(v) == v = Undefined \/ v = Str(<<>>)

\* A parsed body with a field absent or empty, or an email off the pattern.
InvalidBody(b) ==
  /\ b.k = "json"
  /\ \/ Empty(b.firstName) \/ Empty(b.email) \/ Empty(b.password)
     \/ ~LocalAtDomainTld(b.email.s)

\* Two requests with the same well-formed body fields and the same email,
\* both answered, with the platform working throughout.
SameEmailPair(r1, r2) ==
  /\ r1 # r2
  /\ reqs[r1].pc = "done" /\ reqs[r2].pc = "done"
  /\ ~reqs[r1].fault /\ ~reqs[r2].fault
  /\ reqs[r1].body.k = "json" /\ reqs[r2].body.k = "json"
  /\ ~InvalidBody(reqs[r1].body) /\ ~InvalidBody(reqs[r2].body)
  /\ reqs[r1].body.email = reqs[r2].body.email
  /\ reqs[r1].body.firstName = Str(<<"a">>)
  /\ reqs[r2].body.firstName = Str(<<"a">>)

\* C9: of two register requests with the same valid email, in every
\* interleaving of their steps, one is answered 201 and the other 409
\* USER_EXISTS, and the store ends with one record for the email.
C9_OneCreatedOneConflict ==
  \A r1, r2 \in RegSlots :
    Configured /\ SameEmailPair(r1, r2)
      => /\ {reqs[r1].resp.status, reqs[r2].resp.status} = {201, 409}
         /\ \A r \in {r1, r2} :
              reqs[r].resp.status = 409 => reqs[r].resp.code = "USER_EXISTS"
         /\ Cardinality(FindByEmail(reqs[r1].body.email)) = 1

Rejected(r) ==
  /\ reqs[r].resp.status = 400
  /\ reqs[r].resp.code = "VALIDATION_ERROR"
  /\ reqs[r].resp.token = Null
  /\ reqs[r].did = {}
  /\ table = {}

C11_MissingConfigIs503 ==
  \A r \in RegSlots :
    ~Configured /\ reqs[r].pc # "unused"
      => /\ reqs[r].pc \in {"new", "done"}
         /\ reqs[r].did = {}
         /\ table = {}
         /\ reqs[r].pc = "done"
              => /\ reqs[r].resp.status = 503
                 /\ reqs[r].resp.code = "CONFIG_ERROR"
                 /\ reqs[r].resp.token = Null

C11_Witness ==
  /\ env.JWT_SECRET /\ ~env.DB
  /\ reqs[1].pc = "done"
  /\ reqs[1].body.k = "json"
  /\ reqs[1].body.email = Str(<<"a", "@", "a">>)
  /\ reqs[1].resp.status = 503


\* C12: every 201 response carries a token whose payload has
\* exp - iat = 86400, whatever the clock does during the request, and whose
\* userId, email and firstName are those of the user in the response and of
\* the inserted row.
C12_TokenLivesOneDay ==
  \A r \in RegSlots :
    reqs[r].pc = "done" /\ reqs[r].resp.status = 201
      => LET p == reqs[r].resp.token.pl
             u == reqs[r].resp.user IN
         /\ p.exp - p.iat = SecondsPerDay
         /\ p.userId = u.id /\ p.email = u.email /\ p.firstName = u.firstName
         /\ \E row \in table :
              /\ row.id = p.userId
              /\ row.email = p.email
              /\ row.first_name = p.firstName


\* C17: the payload decoding of the client, applied to a token issued by
\* register, returns the payload the server signed, and the token check of
\* the restore path does not throw on it.
C17_IssuedTokenDecodes ==
  \A r \in RegSlots :
    reqs[r].pc = "done" /\ reqs[r].resp.status = 201
      => LET t == reqs[r].resp.token
             p == DecodePayload(t) IN
         /\ p # Throw
         /\ p.exp = t.pl.exp /\ p.iat = t.pl.iat
         /\ p.userId = t.pl.userId
         /\ p.email = t.pl.email
         /\ p.firstName = t.pl.firstName
         /\ \A now \in Nows : TokenCheck(t, now) # "throw"



\* C13: every error response of every registration endpoint carries one of
\* the defined error codes and nothing else besides the fixed message: no
\* exception message, stack trace, list of environment keys or other
\* diagnostic.
ErrorCodes ==
  {"VALIDATION_ERROR", "USER_EXISTS", "CONFIG_ERROR", "INTERNAL_ERROR"}

C13_NoDiagnostics ==
  /\ \A r \in RegSlots :
       reqs[r].pc = "done" /\ reqs[r].resp.status # 201
         => reqs[r].resp.code \in ErrorCodes
  /\ simple.pc = "done" /\ simple.resp.status # 200
       => /\ simple.resp.code \in ErrorCodes
          /\ simple.resp.extra = {}


\* C14: at most one runMigration call is between its start and the return
\* of migratePrompts.
InFlight == {s \in MigSlots : migs[s].pc = "migrating"}

C14_AtMostOneInFlight == Cardinality(InFlight) <= 1


\* C15: every registered progress listener belongs to a runMigration call
\* that is still running; once the calls have finished none is left.
C15_ListenersAreRemoved ==
  \A i \in listeners : \E s \in InFlight : migs[s].listener = i


\* C16: the step in which a runMigration call returns leaves isRunning
\* false and one terminal status: completed (failed = 0) or
\* completed_with_errors (failed > 0), both with completed true and
\* isNeeded false and the numbers of the result, or failed with the
\* message of the error, which is thrown again; and every call that has
\* started returns.
Returned(s) == mret.op = "return" /\ mret.slot = s

C16_TerminalStatus ==
  \A s \in MigSlots :
    Returned(s)
      => /\ ~migrationStatus.isRunning
         /\ migs[s].pc = "idle"
         /\ mret.outcome \in {"resolved", "rejected"}
         /\ mret.outcome = "resolved"
              => /\ migrationStatus.progress.status =
                      (IF mret.result.failed = 0
                       THEN "completed" ELSE "completed_with_errors")
                 /\ migrationStatus.progress.total = mret.result.total
                 /\ migrationStatus.progress.completed = mret.result.migrated
                 /\ migrationStatus.progress.failed = mret.result.failed
                 /\ migrationStatus.completed
                 /\ ~migrationStatus.isNeeded
         /\ mret.outcome = "rejected"
              => /\ migrationStatus.progress.status = "failed"
                 /\ migrationStatus.error = mret.thrown
                 /\ mret.thrown \in ErrorMessages

C16_EveryRunEnds ==
  /\ []C16_TerminalStatus
  /\ \A s \in MigSlots : (migs[s].pc = "migrating") ~> Returned(s)

C16_Witness ==
  /\ Returned(1)
  /\ mret.outcome = "resolved"
  /\ mret.result.failed > 0
  /\ migrationStatus.progress.status = "completed_with_errors"



\* C18: refreshToken called without a token returns false in the same
\* step, sends no request, calls no logout and leaves the stored value,
\* the session fields and the calls in flight as they were.
NoTokenRefresh == ret'.op = "refresh" /\ ret'.net = "none"

RefreshesInFlight(cs) == {c \in Slots : cs[c].op = "refresh"}

C18_NoTokenRefreshIsNoOp ==
  [][/\ NoTokenRefresh
          => /\ ~Truthy(token)
             /\ ret'.result = "false"
             /\ UNCHANGED <<storage, token, user, isLoading, isAuthenticated,
                            calls>>
     /\ ~Truthy(token)
          => RefreshesInFlight(calls') \subseteq RefreshesInFlight(calls)]_vars

C18_Witness ==
  /\ ret.op = "refresh" /\ ret.net = "none" /\ ret.result = "false"
  /\ ~isLoading
  /\ token = Null
  /\ storage # Absent


\* C19: once restore has finished, isAuthenticated is true exactly when
\* the token and the user in memory are both non-null.
C19_AuthenticatedIffSession ==
  ~isLoading => (isAuthenticated <=> (token # Null /\ user # Null))

C19_Witness ==
  /\ ~isLoading
  /\ token # Null
  /\ user = Null
  /\ ~isAuthenticated
  /\ ret.op = "refresh" /\ ret.result = "true"


\* C20: once restore has finished, the token ApiService.getToken reads
\* from storage is the token in memory, so both build the same
\* Authorization header.
C20_StoredTokenIsMemoryToken ==
  ~isLoading
    => /\ GetToken(storage) = token
       /\ Authorization(GetToken(storage)) = Authorization(token)



\* C21: restore ends Authenticated only if the stored token has three
\* segments and its payload carries an exp that is not earlier than the
\* current time.
C21_AuthenticatedNeedsExp ==
  ret.op = "restore" /\ isAuthenticated
    => /\ ret.raw.k = "obj"
       /\ ret.raw.token.k = "tok"
       /\ ret.raw.token.segs = 3
       /\ ret.raw.token.pl.k = "exp"
       /\ ret.raw.token.pl.exp * MsPerSec >= ret.now


\* C22: when the handler has returned, the store holds the record of the
\* request exactly if the response is 201 with a token; a 4xx or 5xx
\* response leaves no record of the request behind.
RecordOf(r) == {row \in table : row.id = GenerateUUID(r)}

C22_AllOrNothing ==
  \A r \in RegSlots :
    reqs[r].pc = "done"
      => (RecordOf(r) # {}
            <=> reqs[r].resp.status = 201 /\ reqs[r].resp.token # Null)



=============================================================================
